---------------------------- MODULE Spec2Model ----------------------------
(***************************************************************************)
(* A model of src/src/CanvasComponent.tsx: the flood fill, the bounded     *)
(* undo history and the pointer handlers of the drawing surface.           *)
(*                                                                         *)
(* Conventions.                                                            *)
(*   - A pixel is the tuple <<r, g, b, a>> of its four bytes.  The code    *)
(*     addresses ImageData.data by the byte index idx = (y*width + x)*4    *)
(*     and always reads or writes idx .. idx+3 together, so the model      *)
(*     indexes whole pixels: pixel p = y*width + x is data[p + 1].         *)
(*   - Pointer coordinates are fractional in the code.  The model counts   *)
(*     them in half pixels: the coordinate c stands for c/2, and           *)
(*     Math.floor is Floor(c) = c \div 2.  Coordinates the flood fill      *)
(*     computes itself (xi + 1, ...) are whole pixels, kept in the same    *)
(*     unit (2 * (xi + 1)).                                                *)
(*   - A string is the sequence of its characters.                         *)
(*   - The props (currentTool, selectedColor, isErasing) are the host's:   *)
(*     each handler takes the values of the render it runs in as inputs.   *)
(*   - Every handler runs against the state the previous step committed:   *)
(*     React re-renders, and refreshes the imperative handle, before the   *)
(*     next event is dispatched.                                           *)
(***************************************************************************)
EXTENDS Integers, Sequences, FiniteSets, TLC

VARIABLES
  canvas,         \* the <canvas> element: [width, height, data]
  canvasContext,  \* useState canvasContext (l.111): TRUE once the 2d context is set
  previewCanvas,  \* useState previewCanvas (l.125): "null", or the preview's pixels
  isDrawing,      \* useState isDrawing (l.114)
  startPoint,     \* useState startPoint (l.122): "null" or [x, y]
  historyState,   \* useState historyState (l.115): [history, currentIndex]
  seedTimer,      \* the setTimeout of l.155 is scheduled and has not run
  images,         \* the Image objects of restoreCanvasState still decoding
  path,           \* the context's current path: the pixels it passes through
  notifyTimers,   \* scheduled setTimeout(onUpdateUndoState, 0) not yet run
  nrec,           \* history: how many snapshots have been taken so far
  call            \* the arguments of the flood-fill calls of SpecFill

vars == <<canvas, canvasContext, previewCanvas, isDrawing, startPoint,
          historyState, seedTimer,
          images, path, notifyTimers, nrec, call>>

---------------------------------------------------------------------------
(* Bounds of the model. *)

\* Flood-fill harness: surfaces of 1..MaxW by 1..MaxH pixels, and how often
\* the same call is repeated.
MaxW == 3
MaxH == 2
MaxCalls == 2

\* The component: snapshots taken in a session, images decoding at once,
\* notification timeouts pending at once.
MaxRecords == 4
MaxImages == 2
MaxTimers == 1

\* The long session: snapshots taken, and how many of them are taken while
\* the session is still free (the seeding timeout may be late, a record may
\* follow an undo).
MaxLong == 24
MaxEarly == 3

\* The session of shape gestures: snapshots taken.
MaxShapes == 2

\* The flood fill taken turn by turn: surfaces of at most MaxStepCells pixels.
MaxStepCells == 4

---------------------------------------------------------------------------
(* Pixels, colours, strings. *)

\* What reading a typed array outside its length gives: no byte value.
undefined == -1

\* parseInt's result for a string that starts with no digit: no number.
NaN == -2

\* pixels of the surfaces
Transparent == <<0, 0, 0, 0>>
Black == <<0, 0, 0, 255>>
White == <<255, 255, 255, 255>>
Red == <<255, 0, 0, 255>>

Floor(c) == c \div 2

Min(a, b) == IF a < b THEN a ELSE b

\* The digits parseInt(_, 16) accepts, with their values.
HexDigits ==
  <<"0", "1", "2", "3", "4", "5", "6", "7", "8", "9",
    "a", "b", "c", "d", "e", "f", "A", "B", "C", "D", "E", "F">>

IsHexDigit(ch) == \E i \in 1..Len(HexDigits) : HexDigits[i] = ch

HexValue(ch) ==
  LET i == CHOOSE j \in 1..Len(HexDigits) : HexDigits[j] = ch
  IN  IF i <= 16 THEN i - 1 ELSE i - 7

\* String.prototype.replace("#", ""): the first "#" is removed.
RemoveFirstHash(s) ==
  IF \E i \in 1..Len(s) : s[i] = "#"
  THEN LET i == CHOOSE j \in 1..Len(s) :
                  s[j] = "#" /\ \A k \in 1..(j - 1) : s[k] # "#"
       IN  SubSeq(s, 1, i - 1) \o SubSeq(s, i + 1, Len(s))
  ELSE s

\* parseInt(s, 16): the value of the longest prefix of hex digits; NaN when
\* the first character is no hex digit.
RECURSIVE ParseHexFrom(_, _, _)
ParseHexFrom(s, i, acc) ==
  IF i > Len(s) \/ ~IsHexDigit(s[i]) THEN acc
  ELSE ParseHexFrom(s, i + 1, acc * 16 + HexValue(s[i]))

ParseInt16(s) ==
  IF Len(s) = 0 \/ ~IsHexDigit(s[1]) THEN NaN ELSE ParseHexFrom(s, 1, 0)

\* ToInt32 as the bit operators apply it: NaN becomes 0.  The colour strings of
\* the model have at most seven digits, so a number is below 2^31 and is kept.
ToInt32(v) == IF v = NaN THEN 0 ELSE v

\* (v >> k) & 255
ByteAt(v, k) == (ToInt32(v) \div (2 ^ k)) % 256

HexToRgba(hex) ==
  LET clean == RemoveFirstHash(hex)
      bigint == ParseInt16(clean)
  IN  <<ByteAt(bigint, 16), ByteAt(bigint, 8), ByteAt(bigint, 0), 255>>

\* data[idx .. idx+3] for idx = 4 * p: undefined outside the array.
PixelAt(data, p) ==
  IF p >= 0 /\ p < Len(data) THEN data[p + 1]
  ELSE <<undefined, undefined, undefined, undefined>>

\* colorsMatch(a, b, idx) with idx = 4 * p
ColorsMatch(a, b, p) ==
  LET px == PixelAt(a, p)
  IN  px[1] = b[1] /\ px[2] = b[2] /\ px[3] = b[3] /\ px[4] = b[4]

---------------------------------------------------------------------------
(* floodFill (l.27-85) *)

\* FillStep that also pushes the neighbour below to the right.
FillStepDiagonal(st, width, height, targetColor, fillColor) ==
  LET top == st.stack[Len(st.stack)]
      rest == SubSeq(st.stack, 1, Len(st.stack) - 1)
      xi == Floor(top[1])
      yi == Floor(top[2])
      p == yi * width + xi
  IN  IF xi < 0 \/ xi >= width \/ yi < 0 \/ yi >= height
      THEN [st EXCEPT !.stack = rest]
      ELSE IF /\ ~ColorsMatch(st.data, fillColor, p)
              /\ PixelAt(st.data, p)[1] = targetColor[1]
              /\ PixelAt(st.data, p)[2] = targetColor[2]
              /\ PixelAt(st.data, p)[3] = targetColor[3]
              /\ PixelAt(st.data, p)[4] = targetColor[4]
           THEN [st EXCEPT
                   !.data = [st.data EXCEPT ![p + 1] = fillColor],
                   !.writes = @ + 1,
                   !.stack = rest \o << <<2 * (xi + 1), 2 * yi>>,
                                        <<2 * (xi - 1), 2 * yi>>,
                                        <<2 * xi, 2 * (yi + 1)>>,
                                        <<2 * xi, 2 * (yi - 1)>>,
                                        <<2 * (xi + 1), 2 * (yi + 1)>> >>]
           ELSE [st EXCEPT !.stack = rest]

\* FillStep that does not push the neighbour above.
FillStepNoUp(st, width, height, targetColor, fillColor) ==
  LET top == st.stack[Len(st.stack)]
      rest == SubSeq(st.stack, 1, Len(st.stack) - 1)
      xi == Floor(top[1])
      yi == Floor(top[2])
      p == yi * width + xi
  IN  IF xi < 0 \/ xi >= width \/ yi < 0 \/ yi >= height
      THEN [st EXCEPT !.stack = rest]
      ELSE IF /\ ~ColorsMatch(st.data, fillColor, p)
              /\ PixelAt(st.data, p)[1] = targetColor[1]
              /\ PixelAt(st.data, p)[2] = targetColor[2]
              /\ PixelAt(st.data, p)[3] = targetColor[3]
              /\ PixelAt(st.data, p)[4] = targetColor[4]
           THEN [st EXCEPT
                   !.data = [st.data EXCEPT ![p + 1] = fillColor],
                   !.writes = @ + 1,
                   !.stack = rest \o << <<2 * (xi + 1), 2 * yi>>,
                                        <<2 * (xi - 1), 2 * yi>>,
                                        <<2 * xi, 2 * (yi + 1)>> >>]
           ELSE [st EXCEPT !.stack = rest]

\* A turn without the colour tests of l.65-69: every pixel inside the bounds
\* is written and its neighbours pushed.
FillStepUntested(st, width, height, targetColor, fillColor) ==
  LET top == st.stack[Len(st.stack)]
      rest == SubSeq(st.stack, 1, Len(st.stack) - 1)
      xi == Floor(top[1])
      yi == Floor(top[2])
      p == yi * width + xi
  IN  IF xi < 0 \/ xi >= width \/ yi < 0 \/ yi >= height
      THEN [st EXCEPT !.stack = rest]
      ELSE [st EXCEPT
              !.data = [@ EXCEPT ![p + 1] = fillColor],
              !.writes = @ + 1,
              !.stack = rest \o << <<2 * (xi + 1), 2 * yi>>,
                                   <<2 * (xi - 1), 2 * yi>>,
                                   <<2 * xi, 2 * (yi + 1)>>,
                                   <<2 * xi, 2 * (yi - 1)>> >>]

\* One turn of the while loop (l.59-81) on st = [data, stack]: pop, floor,
\* test, and on a match write the pixel and push its four neighbours.
FillStep(st, width, height, targetColor, fillColor) ==
  LET top == st.stack[Len(st.stack)]
      rest == SubSeq(st.stack, 1, Len(st.stack) - 1)
      xi == Floor(top[1])
      yi == Floor(top[2])
      p == yi * width + xi
  IN  IF xi < 0 \/ xi >= width \/ yi < 0 \/ yi >= height
      THEN [st EXCEPT !.stack = rest]
      ELSE IF /\ ~ColorsMatch(st.data, fillColor, p)
              /\ PixelAt(st.data, p)[1] = targetColor[1]
              /\ PixelAt(st.data, p)[2] = targetColor[2]
              /\ PixelAt(st.data, p)[3] = targetColor[3]
              /\ PixelAt(st.data, p)[4] = targetColor[4]
           THEN [st EXCEPT
                   !.data = [st.data EXCEPT ![p + 1] = fillColor],
                   !.writes = @ + 1,
                   !.stack = rest \o << <<2 * (xi + 1), 2 * yi>>,
                                        <<2 * (xi - 1), 2 * yi>>,
                                        <<2 * xi, 2 * (yi + 1)>>,
                                        <<2 * xi, 2 * (yi - 1)>> >>]
           ELSE [st EXCEPT !.stack = rest]

\* At most n turns of the loop, stopping when the stack is empty.  The turns
\* are taken half by half, which keeps the evaluation shallow.
RECURSIVE FillRun(_, _, _, _, _, _)
FillRun(st, n, width, height, targetColor, fillColor) ==
  IF Len(st.stack) = 0 \/ n = 0 THEN st
  ELSE IF n = 1 THEN FillStep(st, width, height, targetColor, fillColor)
  ELSE FillRun(FillRun(st, n \div 2, width, height, targetColor, fillColor),
               n - (n \div 2), width, height, targetColor, fillColor)

\* while (stack.length) (l.58-82), taken in stretches of n, 2n, 4n, ... turns
\* until the stack is empty.
RECURSIVE FillLoopFrom(_, _, _, _, _, _)
FillLoopFrom(st, n, width, height, targetColor, fillColor) ==
  IF Len(st.stack) = 0 THEN st
  ELSE FillLoopFrom(FillRun(st, n, width, height, targetColor, fillColor),
                    2 * n, width, height, targetColor, fillColor)

FillLoop(st, width, height, targetColor, fillColor) ==
  FillLoopFrom(st, 1, width, height, targetColor, fillColor)

\* floodFill whose early return compares the three colour channels only.
FloodFillRgbOnly(cv, startX, startY, fillHex) ==
  LET width == cv.width
      height == cv.height
      data == cv.data
      targetP == Floor(startY) * width + Floor(startX)
      targetColor == PixelAt(data, targetP)
      fillColor == HexToRgba(fillHex)
  IN  IF /\ targetColor[1] = fillColor[1]
         /\ targetColor[2] = fillColor[2]
         /\ targetColor[3] = fillColor[3]
      THEN cv
      ELSE LET done == FillLoop([data |-> data, writes |-> 0,
                                 stack |-> << <<startX, startY>> >>],
                                width, height, targetColor, fillColor)
           IN  [cv EXCEPT !.data = done.data]

\* floodFill(ctx, startX, startY, fillHex) on the canvas cv: the canvas after
\* the call.  getImageData copies the pixels, putImageData writes the copy
\* back; the early return of l.54 writes nothing.
FloodFill(cv, startX, startY, fillHex) ==
  LET width == cv.width
      height == cv.height
      data == cv.data
      targetP == Floor(startY) * width + Floor(startX)
      targetColor == PixelAt(data, targetP)
      fillColor == HexToRgba(fillHex)
  IN  IF /\ targetColor[1] = fillColor[1]
         /\ targetColor[2] = fillColor[2]
         /\ targetColor[3] = fillColor[3]
         /\ targetColor[4] = fillColor[4]
      THEN cv
      ELSE LET done == FillLoop([data |-> data, writes |-> 0,
                                 stack |-> << <<startX, startY>> >>],
                                width, height, targetColor, fillColor)
           IN  [cv EXCEPT !.data = done.data]

---------------------------------------------------------------------------
(* The 2d context: what the handlers ask of it. *)

\* The pixels of a fresh or cleared canvas (clearRect over the whole canvas).
BlankData(width, height) == [p \in 1..(width * height) |-> Transparent]

ClearRect(cv) == [cv EXCEPT !.data = BlankData(cv.width, cv.height)]

\* canvas.toDataURL(): the encoded image, a value of its own kind.
ToDataURL(cv) ==
  [mime |-> "image/png", width |-> cv.width, height |-> cv.height,
   pixels |-> cv.data]

\* One pixel drawn onto dst: source colour src, globalAlpha ga (of 255), under
\* globalCompositeOperation "destination-out" (erasing) or "source-over".
Composite(dst, src, ga, erasing) ==
  LET sa == (src[4] * ga) \div 255
      keep == (dst[4] * (255 - sa)) \div 255
      oa == sa + keep
  IN  IF erasing
      THEN IF keep = 0 THEN Transparent ELSE <<dst[1], dst[2], dst[3], keep>>
      ELSE IF oa = 0 THEN Transparent
           ELSE <<(src[1] * sa + dst[1] * keep) \div oa,
                  (src[2] * sa + dst[2] * keep) \div oa,
                  (src[3] * sa + dst[3] * keep) \div oa,
                  oa>>

\* ctx.stroke() of a path through the pixels px, in the colour style.
Stroke(cv, px, style, ga, erasing) ==
  [cv EXCEPT !.data =
     [p \in 1..Len(cv.data) |->
        IF p \in px THEN Composite(cv.data[p], style, ga, erasing)
        ELSE cv.data[p]]]

\* ctx.drawImage(img, 0, 0) of a decoded snapshot.
DrawImage(cv, img, erasing) ==
  [cv EXCEPT !.data =
     [p \in 1..Len(cv.data) |->
        LET x == (p - 1) % cv.width
            y == (p - 1) \div cv.width
        IN  IF x < img.width /\ y < img.height
            THEN Composite(cv.data[p], img.pixels[y * img.width + x + 1],
                           255, erasing)
            ELSE cv.data[p]]]

\* ctx.strokeStyle as the effect of l.200-210 sets it from the props.
StrokeStyle(selectedColor, isErasing) ==
  IF isErasing THEN Black ELSE HexToRgba(selectedColor)

Abs(n) == IF n < 0 THEN -n ELSE n

Between(v, a, b) == (a <= v /\ v <= b) \/ (b <= v /\ v <= a)

\* The pixels (as indices into data) of the canvas a straight segment from
\* point a to point b passes through.
SegmentPixels(cv, a, b) ==
  LET ax == Floor(a.x)
      ay == Floor(a.y)
      bx == Floor(b.x)
      by == Floor(b.y)
  IN  {y * cv.width + x + 1 : <<x, y>> \in
         {q \in (0..(cv.width - 1)) \X (0..(cv.height - 1)) :
            /\ Between(q[1], ax, bx)
            /\ Between(q[2], ay, by)
            /\ (q[1] - ax) * (by - ay) = (q[2] - ay) * (bx - ax)}}

\* drawRectangle (l.224-236): the outline of the box with corners a and b.
RectanglePixels(cv, a, b) ==
  LET ax == Floor(a.x)
      ay == Floor(a.y)
      bx == Floor(b.x)
      by == Floor(b.y)
  IN  {y * cv.width + x + 1 : <<x, y>> \in
         {q \in (0..(cv.width - 1)) \X (0..(cv.height - 1)) :
            /\ Between(q[1], ax, bx)
            /\ Between(q[2], ay, by)
            /\ (q[1] \in {ax, bx} \/ q[2] \in {ay, by})}}

\* drawCircle (l.237-250): the pixels at the distance |ab| from the centre a.
CirclePixels(cv, a, b) ==
  LET ax == Floor(a.x)
      ay == Floor(a.y)
      bx == Floor(b.x)
      by == Floor(b.y)
      r2 == (bx - ax) * (bx - ax) + (by - ay) * (by - ay)
  IN  {y * cv.width + x + 1 : <<x, y>> \in
         {q \in (0..(cv.width - 1)) \X (0..(cv.height - 1)) :
            (q[1] - ax) * (q[1] - ax) + (q[2] - ay) * (q[2] - ay) = r2}}

\* The switch of l.316-326 and l.349-359: no case for "brush" or "fill".
ShapePixels(tool, cv, a, b) ==
  CASE tool = "line" -> SegmentPixels(cv, a, b)
    [] tool = "rectangle" -> RectanglePixels(cv, a, b)
    [] tool = "circle" -> CirclePixels(cv, a, b)
    [] OTHER -> {}

---------------------------------------------------------------------------
(* The history (l.115-121, l.129, l.165-179) *)

maxHistorySize == 20

Max(a, b) == IF a > b THEN a ELSE b

\* Array.prototype.slice(0, end)
Slice0(s, end) ==
  IF end >= 0 THEN SubSeq(s, 1, Min(end, Len(s)))
  ELSE SubSeq(s, 1, Max(Len(s) + end, 0))

\* The updater without the shift of l.171.
SaveHistoryNoShift(prev, imageData) ==
  LET history == Slice0(prev.history, prev.currentIndex + 1) \o <<imageData>>
  IN  [history |-> history, currentIndex |-> Len(history) - 1]

\* The updater with the index taken before the shift.
SaveHistoryIndexBeforeShift(prev, imageData) ==
  LET history == Slice0(prev.history, prev.currentIndex + 1) \o <<imageData>>
      kept == IF Len(history) > maxHistorySize THEN Tail(history) ELSE history
  IN  [history |-> kept, currentIndex |-> Len(history) - 1]

\* The updater shifting one entry early (>= for >).
SaveHistoryShiftEarly(prev, imageData) ==
  LET history == Slice0(prev.history, prev.currentIndex + 1) \o <<imageData>>
      kept == IF Len(history) >= maxHistorySize THEN Tail(history) ELSE history
  IN  [history |-> kept, currentIndex |-> Len(kept) - 1]

\* The updater without the slice of l.169: the new entry is pushed behind all.
SaveHistoryNoSlice(prev, imageData) ==
  LET history == prev.history \o <<imageData>>
      kept == IF Len(history) > maxHistorySize THEN Tail(history) ELSE history
  IN  [history |-> kept, currentIndex |-> Len(kept) - 1]

\* The updater of l.168-176.
SaveHistory(prev, imageData) ==
  LET history == Slice0(prev.history, prev.currentIndex + 1) \o <<imageData>>
      kept == IF Len(history) > maxHistorySize THEN Tail(history) ELSE history
  IN  [history |-> kept, currentIndex |-> Len(kept) - 1]

\* saveCanvasState (l.165-179), called with the canvas as it is by then: the
\* snapshot is taken, the history updated, the notification scheduled.  The
\* entry carries the serial number of its snapshot beside the encoded image.
SaveCanvasState(cv) ==
  /\ historyState' = SaveHistory(historyState,
                                 [id |-> nrec, url |-> ToDataURL(cv)])
  /\ nrec' = nrec + 1
  /\ notifyTimers' = notifyTimers + 1

NoPoint == [isNull |-> TRUE, x |-> 0, y |-> 0]
Point(x, y) == [isNull |-> FALSE, x |-> x, y |-> y]

NoPreview == [isNull |-> TRUE, data |-> <<>>]

NoCall == [x |-> 0, y |-> 0, hex |-> <<>>, before |-> <<>>, n |-> 0]

\* The state after construction, before any effect has run: a canvas of
\* width x height transparent pixels.
Constructed(width, height) ==
  /\ canvas = [width |-> width, height |-> height,
               data |-> BlankData(width, height)]
  /\ canvasContext = FALSE
  /\ previewCanvas = NoPreview
  /\ isDrawing = FALSE
  /\ startPoint = NoPoint
  /\ historyState = [history |-> <<>>, currentIndex |-> -1]
  /\ seedTimer = FALSE
  /\ images = <<>>
  /\ path = [pen |-> NoPoint, pixels |-> {}]
  /\ notifyTimers = 0
  /\ nrec = 0
  /\ call = NoCall

---------------------------------------------------------------------------
(* Effects and timers *)

\* The mount effect (l.131-151): the context, when getContext gives one (ok),
\* and the preview canvas are set; the effect of l.153-163 then schedules the
\* seeding of the history.
Mount(ok) ==
  /\ previewCanvas.isNull
  /\ canvasContext' = ok
  /\ previewCanvas' = [isNull |-> FALSE,
                       data |-> BlankData(canvas.width, canvas.height)]
  /\ seedTimer' = ok
  /\ UNCHANGED <<canvas, isDrawing, startPoint, historyState, images, path,
                 notifyTimers, nrec, call>>

\* The timeout of l.155-161 runs: the history is set to the one snapshot.
SeedHistory ==
  /\ seedTimer
  /\ seedTimer' = FALSE
  /\ historyState' = [history |-> <<[id |-> nrec, url |-> ToDataURL(canvas)]>>,
                      currentIndex |-> 0]
  /\ nrec' = nrec + 1
  /\ UNCHANGED <<canvas, canvasContext, previewCanvas, isDrawing, startPoint,
                 images, path, notifyTimers, call>>

\* img.onload (l.185-193) of the i-th image still decoding.
ImageOnLoad(i, isErasing) ==
  /\ i \in 1..Len(images)
  /\ canvas' = DrawImage(ClearRect(canvas), images[i].url, isErasing)
  /\ images' = SubSeq(images, 1, i - 1) \o SubSeq(images, i + 1, Len(images))
  /\ UNCHANGED <<canvasContext, previewCanvas, isDrawing, startPoint,
                 historyState, seedTimer, path, notifyTimers, nrec, call>>

\* A timeout of l.177 or l.386 runs: onUpdateUndoState is called.
OnUpdateUndoState ==
  /\ notifyTimers > 0
  /\ notifyTimers' = notifyTimers - 1
  /\ UNCHANGED <<canvas, canvasContext, previewCanvas, isDrawing, startPoint,
                 historyState, seedTimer, images, path, nrec, call>>

---------------------------------------------------------------------------
(* Pointer handlers *)

\* startDrawing (l.265-295), onMouseDown at (x, y).
StartDrawing(x, y, currentTool, selectedColor) ==
  IF ~canvasContext
  THEN UNCHANGED <<canvas, canvasContext, previewCanvas, isDrawing,
                      startPoint, historyState, seedTimer, images, path,
                      notifyTimers, nrec, call>>
  ELSE IF currentTool = "fill"
  THEN LET filled == FloodFill(canvas, x, y, selectedColor)
       IN  /\ canvas' = filled
           /\ SaveCanvasState(filled)
           /\ UNCHANGED <<canvasContext, previewCanvas, isDrawing, startPoint,
                          seedTimer, images, path, call>>
  ELSE IF currentTool = "brush"
  THEN /\ path' = [pen |-> Point(x, y), pixels |-> {}]
       /\ isDrawing' = TRUE
       /\ UNCHANGED <<canvas, canvasContext, previewCanvas, startPoint,
                      historyState, seedTimer, images, notifyTimers, nrec,
                      call>>
  ELSE /\ startPoint' = Point(x, y)
       /\ isDrawing' = TRUE
       /\ previewCanvas' = IF ~previewCanvas.isNull
                           THEN [previewCanvas EXCEPT !.data = canvas.data]
                           ELSE previewCanvas
       /\ UNCHANGED <<canvas, canvasContext, historyState, seedTimer, images,
                      path, notifyTimers, nrec, call>>

\* The canvas with the preview's snapshot put back (clearRect, putImageData)
\* and the shape of the current tool stroked from startPoint to (x, y).
WithShape(x, y, currentTool, selectedColor, isErasing, ga) ==
  Stroke([canvas EXCEPT !.data = previewCanvas.data],
         ShapePixels(currentTool, canvas, startPoint, Point(x, y)),
         StrokeStyle(selectedColor, isErasing), ga, isErasing)

\* The path after drawLine, drawRectangle or drawCircle: beginPath, the shape.
ShapePath(x, y, currentTool) ==
  IF currentTool \in {"line", "rectangle", "circle"}
  THEN [pen |-> Point(x, y),
        pixels |-> ShapePixels(currentTool, canvas, startPoint, Point(x, y))]
  ELSE path

\* draw stroking the candidate shape over the canvas as it is, the snapshot
\* of the preview canvas not put back.
DrawOverCanvas(x, y, currentTool, selectedColor, isErasing) ==
  IF ~isDrawing \/ ~canvasContext
  THEN UNCHANGED <<canvas, canvasContext, previewCanvas, isDrawing,
                      startPoint, historyState, seedTimer, images, path,
                      notifyTimers, nrec, call>>
  ELSE IF currentTool = "brush"
  THEN LET line == [pen |-> Point(x, y),
                    pixels |-> path.pixels \cup
                       (IF path.pen.isNull THEN {}
                        ELSE SegmentPixels(canvas, path.pen, Point(x, y)))]
       IN  /\ path' = line
           /\ canvas' = Stroke(canvas, line.pixels,
                               StrokeStyle(selectedColor, isErasing), 255,
                               isErasing)
           /\ UNCHANGED <<canvasContext, previewCanvas, isDrawing, startPoint,
                          historyState, seedTimer, images, notifyTimers, nrec,
                          call>>
  ELSE IF ~startPoint.isNull /\ ~previewCanvas.isNull
  THEN /\ canvas' = Stroke(canvas,
                           ShapePixels(currentTool, canvas, startPoint,
                                       Point(x, y)),
                           StrokeStyle(selectedColor, isErasing), 179,
                           isErasing)
       /\ path' = ShapePath(x, y, currentTool)
       /\ UNCHANGED <<canvasContext, previewCanvas, isDrawing, startPoint,
                      historyState, seedTimer, images, notifyTimers, nrec,
                      call>>
  ELSE UNCHANGED <<canvas, canvasContext, previewCanvas, isDrawing,
                      startPoint, historyState, seedTimer, images, path,
                      notifyTimers, nrec, call>>

\* draw (l.297-329), onMouseMove at (x, y).
Draw(x, y, currentTool, selectedColor, isErasing) ==
  IF ~isDrawing \/ ~canvasContext
  THEN UNCHANGED <<canvas, canvasContext, previewCanvas, isDrawing,
                      startPoint, historyState, seedTimer, images, path,
                      notifyTimers, nrec, call>>
  ELSE IF currentTool = "brush"
  THEN LET line == [pen |-> Point(x, y),
                    pixels |-> path.pixels \cup
                       (IF path.pen.isNull THEN {}
                        ELSE SegmentPixels(canvas, path.pen, Point(x, y)))]
       IN  /\ path' = line
           /\ canvas' = Stroke(canvas, line.pixels,
                               StrokeStyle(selectedColor, isErasing), 255,
                               isErasing)
           /\ UNCHANGED <<canvasContext, previewCanvas, isDrawing, startPoint,
                          historyState, seedTimer, images, notifyTimers, nrec,
                          call>>
  ELSE IF ~startPoint.isNull /\ ~previewCanvas.isNull
  THEN /\ canvas' = WithShape(x, y, currentTool, selectedColor, isErasing, 179)
       /\ path' = ShapePath(x, y, currentTool)
       /\ UNCHANGED <<canvasContext, previewCanvas, isDrawing, startPoint,
                      historyState, seedTimer, images, notifyTimers, nrec,
                      call>>
  ELSE UNCHANGED <<canvas, canvasContext, previewCanvas, isDrawing,
                      startPoint, historyState, seedTimer, images, path,
                      notifyTimers, nrec, call>>

\* stopDrawing without the test of isDrawing (l.333).
StopDrawingAlways(x, y, currentTool, selectedColor, isErasing) ==
  IF ~canvasContext
  THEN UNCHANGED <<canvas, canvasContext, previewCanvas, isDrawing,
                      startPoint, historyState, seedTimer, images, path,
                      notifyTimers, nrec, call>>
  ELSE LET shaped == currentTool # "brush" /\ ~startPoint.isNull
           drawn == IF shaped
                    THEN WithShape(x, y, currentTool, selectedColor,
                                   isErasing, 255)
                    ELSE canvas
       IN  /\ canvas' = drawn
           /\ path' = IF shaped THEN ShapePath(x, y, currentTool) ELSE path
           /\ startPoint' = IF shaped THEN NoPoint ELSE startPoint
           /\ isDrawing' = FALSE
           /\ SaveCanvasState(drawn)
           /\ UNCHANGED <<canvasContext, previewCanvas, seedTimer, images,
                          call>>

\* stopDrawing (l.331-365), onMouseUp or onMouseLeave at (x, y).
StopDrawing(x, y, currentTool, selectedColor, isErasing) ==
  IF ~canvasContext \/ ~isDrawing
  THEN UNCHANGED <<canvas, canvasContext, previewCanvas, isDrawing,
                      startPoint, historyState, seedTimer, images, path,
                      notifyTimers, nrec, call>>
  ELSE LET shaped == currentTool # "brush" /\ ~startPoint.isNull
           drawn == IF shaped
                    THEN WithShape(x, y, currentTool, selectedColor,
                                   isErasing, 255)
                    ELSE canvas
       IN  /\ canvas' = drawn
           /\ path' = IF shaped THEN ShapePath(x, y, currentTool) ELSE path
           /\ startPoint' = IF shaped THEN NoPoint ELSE startPoint
           /\ isDrawing' = FALSE
           /\ SaveCanvasState(drawn)
           /\ UNCHANGED <<canvasContext, previewCanvas, seedTimer, images,
                          call>>

---------------------------------------------------------------------------
(* The imperative handle (l.367-392) *)

\* clearCanvas without the test of canvasContext (l.371).
ClearCanvasUnguarded ==
  /\ canvas' = ClearRect(canvas)
  /\ SaveCanvasState(ClearRect(canvas))
  /\ UNCHANGED <<canvasContext, previewCanvas, isDrawing, startPoint,
                 seedTimer, images, path, call>>

\* clearCanvas (l.370-380)
ClearCanvas ==
  IF canvasContext
  THEN /\ canvas' = ClearRect(canvas)
       /\ SaveCanvasState(ClearRect(canvas))
       /\ UNCHANGED <<canvasContext, previewCanvas, isDrawing, startPoint,
                      seedTimer, images, path, call>>
  ELSE UNCHANGED <<canvas, canvasContext, previewCanvas, isDrawing,
                      startPoint, historyState, seedTimer, images, path,
                      notifyTimers, nrec, call>>

\* restoreCanvasState (l.181-198): the images decoding after the call.
RestoreCanvasState(imageData) ==
  IF canvasContext THEN Append(images, imageData) ELSE images

\* undo with the test currentIndex >= 0; history[-1] is undefined, which
\* restoreCanvasState takes as an image of nothing.
UndoFromZero ==
  IF historyState.currentIndex >= 0
  THEN LET prev == historyState.currentIndex - 1
           entry == IF prev >= 0 THEN historyState.history[prev + 1]
                    ELSE [id |-> undefined, url |-> ToDataURL(ClearRect(canvas))]
       IN  /\ historyState' = [historyState EXCEPT !.currentIndex = prev]
           /\ images' = RestoreCanvasState(entry)
           /\ notifyTimers' = notifyTimers + 1
           /\ UNCHANGED <<canvas, canvasContext, previewCanvas, isDrawing,
                          startPoint, seedTimer, path, nrec, call>>
  ELSE UNCHANGED <<canvas, canvasContext, previewCanvas, isDrawing,
                      startPoint, historyState, seedTimer, images, path,
                      notifyTimers, nrec, call>>

\* undo restoring the entry it leaves (history[currentIndex]).
UndoRestoresCurrent ==
  IF historyState.currentIndex > 0
  THEN LET prev == historyState.currentIndex - 1
       IN  /\ historyState' = [historyState EXCEPT !.currentIndex = prev]
           /\ images' = RestoreCanvasState(historyState.history[prev + 2])
           /\ notifyTimers' = notifyTimers + 1
           /\ UNCHANGED <<canvas, canvasContext, previewCanvas, isDrawing,
                          startPoint, seedTimer, path, nrec, call>>
  ELSE UNCHANGED <<canvas, canvasContext, previewCanvas, isDrawing,
                      startPoint, historyState, seedTimer, images, path,
                      notifyTimers, nrec, call>>

\* undo without the setTimeout of l.386.
UndoSilent ==
  IF historyState.currentIndex > 0
  THEN LET prev == historyState.currentIndex - 1
       IN  /\ historyState' = [historyState EXCEPT !.currentIndex = prev]
           /\ images' = RestoreCanvasState(historyState.history[prev + 1])
           /\ UNCHANGED <<canvas, canvasContext, previewCanvas, isDrawing,
                          startPoint, seedTimer, path, notifyTimers, nrec,
                          call>>
  ELSE UNCHANGED <<canvas, canvasContext, previewCanvas, isDrawing,
                      startPoint, historyState, seedTimer, images, path,
                      notifyTimers, nrec, call>>

\* undo (l.381-388)
Undo ==
  IF historyState.currentIndex > 0
  THEN LET prev == historyState.currentIndex - 1
       IN  /\ historyState' = [historyState EXCEPT !.currentIndex = prev]
           /\ images' = RestoreCanvasState(historyState.history[prev + 1])
           /\ notifyTimers' = notifyTimers + 1
           /\ UNCHANGED <<canvas, canvasContext, previewCanvas, isDrawing,
                          startPoint, seedTimer, path, nrec, call>>
  ELSE UNCHANGED <<canvas, canvasContext, previewCanvas, isDrawing,
                      startPoint, historyState, seedTimer, images, path,
                      notifyTimers, nrec, call>>

\* canUndo (l.389): what the call returns.
CanUndoResult == historyState.currentIndex > 0

\* A call of canUndo: it sets no state.
CanUndo ==
  /\ UNCHANGED <<canvas, canvasContext, previewCanvas, isDrawing, startPoint,
                 historyState, seedTimer, images, path, notifyTimers, nrec,
                 call>>

---------------------------------------------------------------------------
(* Spec: the component, every handler, in a short session. *)

\* The layout gives the canvas its size (l.134-136): one pixel here, the
\* pointer at (0.5, 0.5).
Pointers == {<<1, 1>>}

Tools == {"brush", "fill"}

HexBlack == <<"#", "0", "0", "0", "0", "0", "0">>
HexRed == <<"#", "f", "f", "0", "0", "0", "0">>
HexRedUpper == <<"#", "F", "F", "0", "0", "0", "0">>

Colors == {HexBlack}

Init == Constructed(1, 1)

Quiet == Len(images) < MaxImages /\ notifyTimers < MaxTimers

Next ==
  \/ \E ok \in BOOLEAN : Mount(ok)
  \/ SeedHistory
  \/ \E i \in 1..Len(images), e \in BOOLEAN : ImageOnLoad(i, e)
  \/ OnUpdateUndoState
  \/ /\ nrec < MaxRecords
     /\ notifyTimers < MaxTimers
     /\ \E pt \in Pointers, t \in Tools, c \in Colors :
          StartDrawing(pt[1], pt[2], t, c)
  \/ \E pt \in Pointers, t \in Tools, c \in Colors, e \in BOOLEAN :
       Draw(pt[1], pt[2], t, c, e)
  \/ /\ nrec < MaxRecords
     /\ notifyTimers < MaxTimers
     /\ \E pt \in Pointers, t \in Tools, c \in Colors, e \in BOOLEAN :
          StopDrawing(pt[1], pt[2], t, c, e)
  \/ /\ nrec < MaxRecords
     /\ notifyTimers < MaxTimers
     /\ ClearCanvas
  \/ /\ Quiet
     /\ Undo
  \/ CanUndo

Spec == Init /\ [][Next]_vars

\* The same session with its timers: a callback scheduled with setTimeout
\* (l.177, l.386) is run by the event loop in the end.
SpecNotify == Init /\ [][Next]_vars /\ WF_vars(OnUpdateUndoState)

---------------------------------------------------------------------------
(* SpecCap: one long session, past the capacity of the history.  The user  *)
(* fills the one pixel, taking a colour the pixel does not have, and       *)
(* undoes.  While fewer than MaxEarly snapshots have been taken the        *)
(* seeding timeout may still run, the user also clears the canvas, and a   *)
(* record may follow an undo; later the session records only with the      *)
(* cursor on the last entry.                                               *)

AtTip == historyState.currentIndex = Len(historyState.history) - 1

OtherColor == IF canvas.data[1] = Black THEN HexRed ELSE HexBlack

NextCap ==
  \/ \E ok \in BOOLEAN : Mount(ok)
  \/ /\ nrec < MaxEarly
     /\ SeedHistory
  \/ \E i \in 1..Len(images) : ImageOnLoad(i, FALSE)
  \/ OnUpdateUndoState
  \/ /\ nrec < MaxLong
     /\ notifyTimers < MaxTimers
     /\ AtTip \/ nrec < MaxEarly
     /\ StartDrawing(1, 1, "fill", OtherColor)
  \/ /\ nrec < MaxEarly
     /\ notifyTimers < MaxTimers
     /\ ClearCanvas
  \/ /\ Len(images) < 1
     /\ notifyTimers < MaxTimers
     /\ Undo
  \/ CanUndo

SpecCap == Init /\ [][NextCap]_vars

---------------------------------------------------------------------------
(* SpecFill: floodFill as a function.  A surface, a seed and a fill colour *)
(* are drawn, and the same call is made MaxCalls times.                    *)

Palette == {Transparent, Black}

Surfaces ==
  UNION {{[width |-> w, height |-> h, data |-> d] :
            d \in [1..(w * h) -> Palette]} :
         <<w, h>> \in (1..MaxW) \X (1..MaxH)}

\* The 10 x 10 canvas of #FFFFFF.
WhiteCanvas ==
  [width |-> 10, height |-> 10, data |-> [p \in 1..100 |-> White]]

\* Seeds along one axis of n pixels: one coordinate in each pixel, whole
\* (i) or fractional (i + 0.5) in turn, and one on either side: -0.5 and n.
SeedCoords(n) == {-1, 2 * n} \cup {2 * i + (i % 2) : i \in 0..(n - 1)}

FillColors == {HexBlack, HexRed}

InitFill ==
  /\ \E cv \in Surfaces \cup {WhiteCanvas} :
       \E x \in SeedCoords(cv.width), y \in SeedCoords(cv.height) :
         \E hex \in (IF cv = WhiteCanvas THEN {HexRedUpper} ELSE FillColors) :
           /\ canvas = cv
           /\ call = [x |-> x, y |-> y, hex |-> hex, before |-> cv.data,
                      n |-> 0]
  /\ canvasContext = TRUE
  /\ previewCanvas = NoPreview
  /\ isDrawing = FALSE
  /\ startPoint = NoPoint
  /\ historyState = [history |-> <<>>, currentIndex |-> -1]
  /\ seedTimer = FALSE
  /\ images = <<>>
  /\ path = [pen |-> NoPoint, pixels |-> {}]
  /\ notifyTimers = 0
  /\ nrec = 0

\* floodFill(ctx, call.x, call.y, call.hex)
FloodFillCall ==
  /\ call.n < MaxCalls
  /\ canvas' = FloodFill(canvas, call.x, call.y, call.hex)
  /\ call' = [call EXCEPT !.n = @ + 1]
  /\ UNCHANGED <<canvasContext, previewCanvas, isDrawing, startPoint,
                 historyState, seedTimer, images, path, notifyTimers, nrec>>

NextFill == FloodFillCall

SpecFill == InitFill /\ [][NextFill]_vars

---------------------------------------------------------------------------
(* SpecLinear: the history is seeded, snapshots are recorded with no undo  *)
(* in between, and then the user undoes.  Each record is a fill of the one *)
(* pixel in a colour it does not have.                                     *)

Seeded == ~seedTimer /\ Len(historyState.history) > 0

NextLinear ==
  \/ Mount(TRUE)
  \/ SeedHistory
  \/ \E i \in 1..Len(images) : ImageOnLoad(i, FALSE)
  \/ OnUpdateUndoState
  \/ /\ Seeded
     /\ AtTip
     /\ images = <<>>
     /\ nrec < MaxLong
     /\ notifyTimers < MaxTimers
     /\ StartDrawing(1, 1, "fill", OtherColor)
  \/ /\ Len(images) < MaxImages
     /\ notifyTimers < MaxTimers
     /\ Undo

SpecLinear == Init /\ [][NextLinear]_vars

---------------------------------------------------------------------------
(* SpecShape: shape gestures on a canvas of two pixels in a row.  The user *)
(* presses, moves and releases the pointer over either pixel with the line *)
(* or the circle tool once the history is seeded, and undoes in between;   *)
(* restores complete at any time, also during a gesture.                   *)

ShapePointers == {<<1, 1>>, <<3, 1>>}

ShapeTools == {"line", "circle"}

InitShape == Constructed(2, 1)

NextShape ==
  \/ Mount(TRUE)
  \/ SeedHistory
  \/ \E i \in 1..Len(images) : ImageOnLoad(i, FALSE)
  \/ OnUpdateUndoState
  \/ /\ ~seedTimer
     /\ \E pt \in ShapePointers, t \in ShapeTools :
          StartDrawing(pt[1], pt[2], t, HexBlack)
  \/ \E pt \in ShapePointers, t \in ShapeTools :
       Draw(pt[1], pt[2], t, HexBlack, FALSE)
  \/ /\ nrec < MaxShapes
     /\ notifyTimers < MaxTimers
     /\ \E pt \in ShapePointers, t \in ShapeTools :
          StopDrawing(pt[1], pt[2], t, HexBlack, FALSE)
  \/ /\ Len(images) < 1
     /\ notifyTimers < MaxTimers
     /\ Undo

SpecShape == InitShape /\ [][NextShape]_vars

---------------------------------------------------------------------------
(* SpecFillSteps: one call of floodFill, taken statement by statement.     *)
(* call.pc is where the call stands: "start" before l.33, "loop" at the    *)
(* test of l.58, "done" after the return of l.54 or the end of l.84.       *)
(* call.reads and call.written are the coordinates (xi, yi) at which the   *)
(* call has read, and written, the pixel array; call.puts counts the       *)
(* putImageData calls.                                                     *)

StepSurfaces ==
  UNION {{[width |-> w, height |-> h, data |-> d] :
            d \in [1..(w * h) -> Palette]} :
         <<w, h>> \in {wh \in (1..MaxStepCells) \X (1..MaxStepCells) :
                          wh[1] * wh[2] <= MaxStepCells}}

InitFillSteps ==
  /\ \E cv \in StepSurfaces :
       \E x \in SeedCoords(cv.width), y \in SeedCoords(cv.height) :
         \E hex \in FillColors :
           /\ canvas = cv
           /\ call = [x |-> x, y |-> y, hex |-> hex, before |-> cv.data,
                      n |-> 0, pc |-> "start", data |-> <<>>,
                      stack |-> <<>>, writes |-> 0, reads |-> {},
                      written |-> {}, puts |-> 0,
                      targetColor |-> Transparent,
                      fillColor |-> Transparent]
  /\ canvasContext = TRUE
  /\ previewCanvas = NoPreview
  /\ isDrawing = FALSE
  /\ startPoint = NoPoint
  /\ historyState = [history |-> <<>>, currentIndex |-> -1]
  /\ seedTimer = FALSE
  /\ images = <<>>
  /\ path = [pen |-> NoPoint, pixels |-> {}]
  /\ notifyTimers = 0
  /\ nrec = 0

\* l.33-57: the pixels are copied, the target colour is read at the seed,
\* and the call returns or prepares the stack.
FillBegin ==
  /\ call.pc = "start"
  /\ LET data == canvas.data
         targetP == Floor(call.y) * canvas.width + Floor(call.x)
         targetColor == PixelAt(data, targetP)
         fillColor == HexToRgba(call.hex)
         same == /\ targetColor[1] = fillColor[1]
                 /\ targetColor[2] = fillColor[2]
                 /\ targetColor[3] = fillColor[3]
                 /\ targetColor[4] = fillColor[4]
     IN  call' = [call EXCEPT
                    !.data = data,
                    !.reads = {<<Floor(call.x), Floor(call.y)>>},
                    !.targetColor = targetColor,
                    !.fillColor = fillColor,
                    !.stack = IF same THEN <<>>
                              ELSE << <<call.x, call.y>> >>,
                    !.pc = IF same THEN "done" ELSE "loop"]
  /\ UNCHANGED <<canvas, canvasContext, previewCanvas, isDrawing, startPoint,
                 historyState, seedTimer, images, path, notifyTimers, nrec>>

\* The coordinates at which the turn on top of st.stack reads the array:
\* none when the bounds test of l.64 sends it on.
TurnReads(st, width, height) ==
  LET top == st.stack[Len(st.stack)]
      xi == Floor(top[1])
      yi == Floor(top[2])
  IN  IF xi < 0 \/ xi >= width \/ yi < 0 \/ yi >= height THEN {}
      ELSE {<<xi, yi>>}

\* The coordinates at which the turn from st to next has written (l.72-75).
TurnWrites(st, next) ==
  LET top == st.stack[Len(st.stack)]
  IN  IF next.writes > st.writes THEN {<<Floor(top[1]), Floor(top[2])>>}
      ELSE {}

\* One turn of the while loop (l.58-82).
FillTurn ==
  /\ call.pc = "loop"
  /\ Len(call.stack) > 0
  /\ LET next == FillStep(call, canvas.width, canvas.height,
                          call.targetColor, call.fillColor)
     IN  call' = [next EXCEPT
                    !.reads = @ \cup TurnReads(call, canvas.width,
                                               canvas.height),
                    !.written = @ \cup TurnWrites(call, next)]
  /\ UNCHANGED <<canvas, canvasContext, previewCanvas, isDrawing, startPoint,
                 historyState, seedTimer, images, path, notifyTimers, nrec>>

\* The loop ends and putImageData writes the pixels back (l.84).
FillPut ==
  /\ call.pc = "loop"
  /\ Len(call.stack) = 0
  /\ canvas' = [canvas EXCEPT !.data = call.data]
  /\ call' = [call EXCEPT !.puts = @ + 1, !.pc = "done"]
  /\ UNCHANGED <<canvasContext, previewCanvas, isDrawing, startPoint,
                 historyState, seedTimer, images, path, notifyTimers, nrec>>

NextFillSteps == FillBegin \/ FillTurn \/ FillPut

\* The call is one synchronous run of JavaScript: it goes on while it can.
SpecFillSteps ==
  InitFillSteps /\ [][NextFillSteps]_vars /\ WF_vars(NextFillSteps)

---------------------------------------------------------------------------
(* Properties of the history *)

Entries == historyState.history

Cursor == historyState.currentIndex

Ids(h) == {h[i].id : i \in 1..Len(h)}

\* A step of saveCanvasState: a snapshot is taken and the seeding timer is as
\* it was.
RecordStep == nrec' = nrec + 1 /\ seedTimer' = seedTimer

\* The step of the seeding timeout.
SeedStep == seedTimer /\ ~seedTimer'

\* C1: in every reachable state, a non-empty history has its cursor on one of
\* its entries (0 <= cursor < length), and the cursor is -1 exactly when the
\* history is empty.
C1_CursorInRange ==
  /\ Len(Entries) > 0 => (0 <= Cursor /\ Cursor < Len(Entries))
  /\ (Cursor = -1) <=> (Len(Entries) = 0)

\* Records and undos have left the cursor inside a history of three or more.
C1_Witness ==
  /\ Len(Entries) >= 3
  /\ Cursor = 1
  /\ images # <<>>

\* C2: the history never holds more than 20 entries; a record that would make
\* them 21 removes exactly one entry, the oldest, and keeps the others in
\* their order with the new entry last.
C2_BoundedFifo ==
  [][/\ Len(Entries') <= maxHistorySize
     /\ (RecordStep /\ Cursor + 2 > maxHistorySize) =>
          /\ Len(Entries') = maxHistorySize
          /\ \A i \in 1..(maxHistorySize - 1) : Entries'[i] = Entries[i + 1]
          /\ Entries'[maxHistorySize].id = nrec]_vars

\* The history is full and the entry of snapshot MaxEarly, which only an
\* eviction removes, has left it.
C2_Witness ==
  /\ Len(Entries) = maxHistorySize
  /\ Entries[1].id > MaxEarly

\* C3: a record turns (entries, cursor) into entries[0..cursor] followed by
\* the snapshot of the surface, without its oldest entry when that is longer
\* than 20, and puts the cursor on the last entry, which is the new snapshot.
C3_Record ==
  [][RecordStep =>
       LET snapshot == [id |-> nrec, url |-> ToDataURL(canvas')]
           appended == Append(SubSeq(Entries, 1, Cursor + 1), snapshot)
           expected == IF Len(appended) > maxHistorySize
                       THEN SubSeq(appended, 2, Len(appended))
                       ELSE appended
       IN  /\ Entries' = expected
           /\ Cursor' = Len(Entries') - 1
           /\ Entries'[Cursor' + 1] = snapshot
           /\ Entries'[Cursor' + 1].url.pixels = canvas'.data]_vars

\* A record has just evicted: the cursor is on the last of 20 entries, the
\* snapshot of the surface, and the entry of snapshot MaxEarly is gone.
C3_Witness ==
  /\ Len(Entries) = maxHistorySize
  /\ Cursor = maxHistorySize - 1
  /\ Entries[1].id > MaxEarly
  /\ Entries[maxHistorySize].id = nrec - 1
  /\ Entries[maxHistorySize].url.pixels = canvas.data
  /\ images = <<>>

\* C4: undo with the cursor at 0 or below changes neither the history nor the
\* surface and asks for no restore; with the cursor above 0 it lowers the
\* cursor by one, keeps the entries, and asks for exactly one restore, of the
\* entry at the new cursor.
C4_Undo ==
  [][Undo =>
       IF Cursor <= 0
       THEN UNCHANGED <<historyState, canvas, images>>
       ELSE /\ Cursor' = Cursor - 1
            /\ Entries' = Entries
            /\ canvas' = canvas
            /\ images' = Append(images, Entries[Cursor' + 1])]_vars

\* Two undos in a row: both restores are asked for, the last of the entry at
\* the cursor.
C4_Witness ==
  /\ Len(images) = 2
  /\ Cursor + 2 < Len(Entries)
  /\ images[1] = Entries[Cursor + 2]
  /\ images[2] = Entries[Cursor + 1]

\* What the n-th snapshot of the linear session shows: the blank canvas, then
\* black and red in turn.
LinearPixel(n) ==
  IF n = 0 THEN Transparent ELSE IF n % 2 = 1 THEN Black ELSE Red

\* C5: after the seeding and more than 20 records with no undo in between,
\* the history holds exactly the 20 latest snapshots, oldest first, and the
\* last record leaves the cursor on the 20th; each undo then lowers the cursor
\* by one while it is above 0, and at 0, on the oldest retained snapshot, the
\* cursor stays.
C5_Retained ==
  nrec > maxHistorySize =>
    /\ Len(Entries) = maxHistorySize
    /\ \A i \in 1..Len(Entries) :
         /\ Entries[i].id = nrec - maxHistorySize + i - 1
         /\ Entries[i].url.pixels = <<LinearPixel(Entries[i].id)>>
    /\ 0 <= Cursor
    /\ Cursor < maxHistorySize

C5_UndoSteps ==
  nrec >= maxHistorySize =>
    /\ RecordStep => Cursor' = maxHistorySize - 1
    /\ (~RecordStep /\ Cursor > 0) => Cursor' \in {Cursor, Cursor - 1}
    /\ (~RecordStep /\ Cursor > 0 /\ Undo) => Cursor' = Cursor - 1
    /\ (~RecordStep /\ Cursor = 0) => Cursor' = 0

C5_Linear == [](C5_Retained) /\ [][C5_UndoSteps]_vars

\* Undos have brought the cursor from the 20th entry to the oldest retained
\* snapshot, which is not the seed.
C5_Witness ==
  /\ nrec > maxHistorySize
  /\ Cursor = 0
  /\ Entries[1].id = nrec - maxHistorySize
  /\ images = <<>>
  /\ canvas.data = Entries[1].url.pixels

\* C6: a record removes every entry behind the cursor; an entry that has left
\* the history never returns to it, and a restore is only ever asked for an
\* entry of the history, so never for a discarded one; the cursor rises only
\* in a record (or from -1 to 0 in the seeding): there is no redo.
C6_NoRedo ==
  [][/\ RecordStep =>
          \A i \in (Cursor + 2)..Len(Entries) : Entries[i].id \notin Ids(Entries')
     /\ Ids(Entries') \subseteq (Ids(Entries) \cup {nrec})
     /\ Len(images') > Len(images) =>
          /\ images'[Len(images')].id \in Ids(Entries')
          /\ images'[Len(images')] = Entries'[Cursor' + 1]
     /\ Cursor' > Cursor => (RecordStep \/ (SeedStep /\ Cursor = -1))]_vars

\* A record after an undo has left a gap in the serial numbers, and an undo
\* after it has asked for a restore.
C6_Witness ==
  /\ \E i \in 1..(Len(Entries) - 1) : Entries[i + 1].id > Entries[i].id + 1
  /\ Cursor < Len(Entries) - 1
  /\ images # <<>>

\* The seeding timeout has run.
SeedingDone == canvasContext /\ ~seedTimer

\* C7: canUndo returns cursor > 0; it is false as long as the seeding has not
\* run, false right after the initialization (one entry, cursor 0), and true
\* once the initialization and exactly one record have happened and the
\* cursor is where the record left it.
C7_CanUndo ==
  /\ CanUndoResult <=> Cursor > 0
  /\ ~SeedingDone => ~CanUndoResult
  /\ (SeedingDone /\ nrec = 1) =>
       (Len(Entries) = 1 /\ Cursor = 0 /\ ~CanUndoResult)
  /\ (SeedingDone /\ nrec = 2 /\ AtTip) => CanUndoResult

---------------------------------------------------------------------------
(* Properties of the flood fill *)

\* The pixels of a width x height surface, numbered row by row from 0.
PixelIndexes == 0..(canvas.width * canvas.height - 1)

\* p and q are neighbours on the grid: side by side in one row, or one above
\* the other in one column.
Adjacent(p, q, width) ==
  \/ /\ (p \div width) = (q \div width)
     /\ ((p % width) = (q % width) + 1 \/ (q % width) = (p % width) + 1)
  \/ /\ (p % width) = (q % width)
     /\ \/ (p \div width) = (q \div width) + 1
        \/ (q \div width) = (p \div width) + 1

\* The pixels of colour `colour` joined to those of S by such neighbours.
RECURSIVE Grow(_, _, _, _)
Grow(S, data, width, colour) ==
  LET more == {q \in 0..(Len(data) - 1) :
                 /\ data[q + 1] = colour
                 /\ \E p \in S : Adjacent(p, q, width)}
  IN  IF more \subseteq S THEN S ELSE Grow(S \cup more, data, width, colour)

SeedInBounds ==
  /\ Floor(call.x) \in 0..(canvas.width - 1)
  /\ Floor(call.y) \in 0..(canvas.height - 1)

SeedPixel == Floor(call.y) * canvas.width + Floor(call.x)

\* The component of the seed in the surface as it was before the call.
SeedComponent ==
  Grow({SeedPixel}, call.before, canvas.width, call.before[SeedPixel + 1])

\* (R, G, B, 255) of the colours the calls are made with.
FillRgba ==
  CASE call.hex = HexBlack -> <<0, 0, 0, 255>>
    [] call.hex = HexRed -> <<255, 0, 0, 255>>
    [] call.hex = HexRedUpper -> <<255, 0, 0, 255>>

\* C8: with the seed inside the canvas, a pixel that is not joined to the seed
\* by 4-connected pixels of the seed's original colour keeps the value it had
\* before the call.
C8_OnlyComponent ==
  (call.n >= 1 /\ SeedInBounds) =>
    LET component == SeedComponent
    IN  /\ Len(canvas.data) = Len(call.before)
        /\ \A p \in PixelIndexes :
             p \notin component => canvas.data[p + 1] = call.before[p + 1]

\* A fill has changed the surface and left alone two pixels of the seed's
\* colour: one that follows, across the row edge, a pixel of the component,
\* and one that touches a pixel of the component by a corner only.
C8_Witness ==
  /\ call.n = 1
  /\ SeedInBounds
  /\ canvas.data # call.before
  /\ LET component == SeedComponent
     IN  \E p \in component :
           /\ (p % canvas.width) = canvas.width - 1
           /\ p + 1 \in PixelIndexes
           /\ p + 1 \notin component
           /\ call.before[p + 2] = call.before[SeedPixel + 1]
           /\ canvas.data[p + 2] = call.before[p + 2]
           /\ p - 1 + canvas.width \in PixelIndexes
           /\ p - 1 + canvas.width \notin component
           /\ call.before[p + canvas.width] = call.before[SeedPixel + 1]
           /\ canvas.data[p + canvas.width] = call.before[p + canvas.width]

\* C9: with the seed inside the canvas and of another colour than the fill,
\* every pixel of the seed's component is (R, G, B, 255) of the fill colour
\* after the call; the 10 x 10 canvas of #FFFFFF filled from (0, 0) with
\* #FF0000 has its 100 pixels at (255, 0, 0, 255).
C9_ComponentFilled ==
  /\ (call.n >= 1 /\ SeedInBounds /\ call.before[SeedPixel + 1] # FillRgba) =>
       \A p \in SeedComponent : canvas.data[p + 1] = FillRgba
  /\ (/\ call.n >= 1
      /\ call.before = WhiteCanvas.data
      /\ call.x = 0
      /\ call.y = 0
      /\ call.hex = HexRedUpper) =>
       /\ Len(canvas.data) = 100
       /\ \A p \in 1..100 : canvas.data[p] = <<255, 0, 0, 255>>

\* The 10 x 10 white canvas has been filled from (0, 0).
C9_Witness ==
  /\ call.n = 1
  /\ canvas.width = 10
  /\ canvas.height = 10
  /\ call.before = WhiteCanvas.data
  /\ call.x = 0
  /\ call.y = 0
  /\ \A p \in 1..100 : canvas.data[p] = Red

\* C10: a call whose seed pixel has the fill colour on its four channels
\* leaves the surface as it was; a seed pixel with the fill's R, G, B and
\* another alpha than 255 is filled; the second of two equal calls leaves the
\* surface as the first made it.
C10_SameColour ==
  (call.n >= 1 /\ SeedInBounds) =>
    /\ call.before[SeedPixel + 1] = FillRgba => canvas.data = call.before
    /\ (/\ call.before[SeedPixel + 1][1] = FillRgba[1]
        /\ call.before[SeedPixel + 1][2] = FillRgba[2]
        /\ call.before[SeedPixel + 1][3] = FillRgba[3]
        /\ call.before[SeedPixel + 1][4] # 255) =>
         /\ canvas.data[SeedPixel + 1] = FillRgba
         /\ canvas.data # call.before

C10_SecondCall == (call.n >= 1 /\ FloodFillCall) => canvas' = canvas

C10_Idempotent == [](C10_SameColour) /\ [][C10_SecondCall]_vars

\* The call has been made twice on a transparent seed with black: the first
\* filled it, the second changed nothing.
C10_Witness ==
  /\ call.n = 2
  /\ SeedInBounds
  /\ call.hex = HexBlack
  /\ call.before[SeedPixel + 1] = Transparent
  /\ canvas.data[SeedPixel + 1] = Black
  /\ \E p \in PixelIndexes : call.before[p + 1] = Black

---------------------------------------------------------------------------
(* Properties of the gestures, the restores and the lifecycle *)

\* A shape gesture is in progress.
ShapeGesture == isDrawing /\ ~startPoint.isNull /\ ~previewCanvas.isNull

C12_Restore ==
  [][/\ (Undo /\ Cursor > 0) =>
          /\ Cursor' = Cursor - 1
          /\ canvas' = canvas
          /\ Len(images') = Len(images) + 1
     /\ Len(images') < Len(images) =>
          \E i \in 1..Len(images), e \in BOOLEAN : ImageOnLoad(i, e)
     /\ \A i \in 1..Len(images), e \in BOOLEAN :
          ImageOnLoad(i, e) =>
            /\ canvas'.width = images[i].url.width
            /\ canvas'.height = images[i].url.height
            /\ canvas'.data = images[i].url.pixels]_vars

\* The step appends one entry, the snapshot this step takes, and no other.
RecordsOnce ==
  /\ nrec' = nrec + 1
  /\ Ids(Entries') \ Ids(Entries) = {nrec}
  /\ Entries'[Len(Entries')].id = nrec
  /\ Entries'[Len(Entries')].url.pixels = canvas'.data

\* The step takes no snapshot and leaves the history as it is.
RecordsNothing == nrec' = nrec /\ historyState' = historyState

Untouched ==
  UNCHANGED <<canvas, isDrawing, startPoint, path, historyState, images, nrec,
              notifyTimers>>

\* C14: while the context is not set, no step changes the surface, the
\* gesture state or the history: not a pointer-down, pointer-move, pointer-up
\* or pointer-leave, not clearCanvas, not undo.
C14_NullContext ==
  [][~canvasContext =>
       /\ Untouched
       /\ \A pt \in Pointers, t \in Tools, c \in Colors, e \in BOOLEAN :
            (\/ StartDrawing(pt[1], pt[2], t, c)
             \/ Draw(pt[1], pt[2], t, c, e)
             \/ StopDrawing(pt[1], pt[2], t, c, e)
             \/ ClearCanvas
             \/ Undo) => (Untouched /\ ~canvasContext')]_vars

\* The component is mounted, getContext has given no context, and all is as
\* it was constructed.
C14_Witness ==
  /\ ~canvasContext
  /\ ~previewCanvas.isNull
  /\ canvas.data = BlankData(canvas.width, canvas.height)
  /\ ~isDrawing
  /\ startPoint.isNull
  /\ Entries = <<>>
  /\ Cursor = -1

\* C16: whenever the history is seeded, no restore is being decoded and no
\* gesture is in progress, the surface shows the entry under the cursor.
C16_Consistent ==
  (SeedingDone /\ Len(Entries) > 0 /\ images = <<>> /\ ~isDrawing) =>
    canvas.data = Entries[Cursor + 1].url.pixels

\* C17: the seeding step finds the history empty and leaves it with one
\* entry, the blank snapshot, under cursor 0; once it has run it does not run
\* again; and an entry leaves the history only in a step of saveCanvasState
\* (truncation or eviction), never in the seeding step.
C17_SeedOnce ==
  [][/\ SeedStep =>
          /\ Entries = <<>>
          /\ Len(Entries') = 1
          /\ Cursor' = 0
          /\ Entries'[1].url.pixels = BlankData(canvas.width, canvas.height)
     /\ (SeedingDone /\ Len(Entries) > 0) => ~seedTimer'
     /\ (Ids(Entries) \ Ids(Entries') # {}) => RecordStep]_vars

\* A step of an effective undo: the cursor goes one entry back.
UndoStep == Cursor > 0 /\ Cursor' = Cursor - 1 /\ nrec' = nrec

\* A step of the notification callback.
NotifyStep == notifyTimers' = notifyTimers - 1

\* Every record and every effective undo schedules one callback, nothing
\* else schedules one, and a callback runs in a step of its own that leaves
\* the history, already changed, alone.
NotifySteps ==
  [][/\ (RecordStep \/ UndoStep) => notifyTimers' = notifyTimers + 1
     /\ notifyTimers' > notifyTimers => (RecordStep \/ UndoStep)
     /\ notifyTimers' < notifyTimers =>
          (NotifyStep /\ UNCHANGED <<historyState, canvas, nrec>>)
     /\ (Cursor <= 0 /\ Undo) => UNCHANGED notifyTimers
     /\ \A pt \in Pointers, t \in Tools, c \in Colors, e \in BOOLEAN :
          /\ (t # "fill" /\ StartDrawing(pt[1], pt[2], t, c)) =>
               UNCHANGED notifyTimers
          /\ Draw(pt[1], pt[2], t, c, e) => UNCHANGED notifyTimers
          /\ (~isDrawing /\ StopDrawing(pt[1], pt[2], t, c, e)) =>
               UNCHANGED notifyTimers]_vars

\* C19: every record and every effective undo schedules exactly one
\* notification callback, which runs later, after the state change, and
\* every scheduled callback is run in the end; a no-op undo and a pointer
\* event that records nothing schedule none.
C19_Notify ==
  /\ NotifySteps
  /\ \A k \in 1..(MaxTimers + 1) : (notifyTimers = k) ~> (notifyTimers < k)

\* A record and an effective undo have happened and every callback has run.
C19_Witness ==
  /\ notifyTimers = 0
  /\ Len(Entries) >= 2
  /\ Cursor >= 0
  /\ Cursor < Len(Entries) - 1
  /\ nrec >= 2

---------------------------------------------------------------------------
(* Properties of one call of floodFill, turn by turn *)

InsideCanvas(c) ==
  /\ 0 <= c[1] /\ c[1] < canvas.width
  /\ 0 <= c[2] /\ c[2] < canvas.height

\* C15: every pixel the call has read or written lies in [0, width) x
\* [0, height), and a call whose seed lies outside ends with the surface as
\* it was.
C15_InBounds ==
  /\ \A c \in call.reads \cup call.written : InsideCanvas(c)
  /\ (call.pc = "done" /\ ~InsideCanvas(<<Floor(call.x), Floor(call.y)>>)) =>
       canvas.data = call.before

\* No pixel has been written twice, the pixels have been written back at
\* most once, and a call that is over has emptied its stack and has written
\* the pixels back once, unless it returned at l.54 before the loop.
FillOnce ==
  /\ call.writes = Cardinality(call.written)
  /\ call.puts <= 1
  /\ call.puts = 1 => (call.pc = "done" /\ canvas.data = call.data)
  /\ call.pc = "done" =>
       /\ call.stack = <<>>
       /\ call.puts = IF call.targetColor = call.fillColor THEN 0 ELSE 1

\* C18: every call of floodFill ends; during it each pixel is written at
\* most once, and at its end the stack is empty and the pixel array has been
\* written back to the surface exactly once.
C18_Terminates == []FillOnce /\ <>(call.pc = "done")

\* A call on a 2x2 surface of one colour is over: it wrote all four pixels,
\* once each, and wrote the array back.
C18_Witness ==
  /\ call.pc = "done"
  /\ call.puts = 1
  /\ call.stack = <<>>
  /\ call.writes = 4
  /\ Cardinality(call.written) = 4
  /\ canvas.width = 2
  /\ canvas.height = 2
  /\ canvas.data # call.before

=============================================================================
